---- MODULE Spec2Model ----
(***************************************************************************)
(* Dashboard_H: the cached load path of the dashboard (app.py load_data    *)
(* over the blob-store wrappers of s3_utils.py), the growth computations   *)
(* of the dashboard's tabs, and the tabs' filters, metrics and charts.     *)
(*                                                                         *)
(* Spec       the load path: browser sessions of one server process call   *)
(*            load_data, the blob store fails or changes underneath.       *)
(* SpecGrowth one script run over a loaded pair of tables: the growth      *)
(*            displays of tab2, tab3 and tab4.                             *)
(* SpecViews  one script run over a loaded pair of tables and the          *)
(*            category-breakdown file: filters, key metrics, top           *)
(*            categories, group sums and the month axes of the charts.     *)
(***************************************************************************)
EXTENDS Integers, Sequences, FiniteSets, TLC

VARIABLES
    raw,          \* the canonical sales table preprocess_sales_data builds
    blob,         \* the object under <prefix>processed_sales_data.csv
    memo,         \* the st.cache_data entry of load_data
    lock,         \* the holder of the entry's compute lock
    pc,           \* per browser session: its position in load_data
    local,        \* per session: load_data's local sales_data
    result,       \* per session: what load_data returned to the script
    err,          \* per session: the exception that left load_data
    via,          \* per session: how the last completed load got its table
    seen,         \* per session: what check_file_exists_in_s3 answered
    nComputes,    \* preprocess_sales_data calls in this process run
    everComputes, \* preprocess_sales_data calls over all process runs
    nLoads,       \* load_data calls that returned, over all process runs
    restarts,     \* process restarts so far
    clean,        \* so far no store call failed, nobody else changed the
                  \* object and no load was cut short by a restart
    lastSave,     \* the last save of this process run: "none", "ok", "failed"
    sales_data,   \* the script's sales_data (SpecGrowth)
    service_data, \* the script's service_data (SpecGrowth)
    gpc,          \* position of the script run (SpecGrowth)
    out,          \* what the script run has displayed so far (SpecGrowth)
    category_file \* the object under the category-breakdown key (SpecViews)

cacheVars == <<raw, blob, memo, lock, pc, local, result, err, via, seen,
               nComputes, everComputes, nLoads, restarts, clean, lastSave>>
growthVars == <<sales_data, service_data, gpc, out, category_file>>
vars == <<raw, blob, memo, lock, pc, local, result, err, via, seen,
          nComputes, everComputes, nLoads, restarts, clean, lastSave,
          sales_data, service_data, gpc, out, category_file>>

---------------------------------------------------------------------------
(* Bounds *)

NumTabs == 2        \* browser sessions against the one server process
MaxLoads == 3       \* load_data calls that return
MaxRestarts == 1    \* restarts of the server process
MaxRows == 3        \* rows of a sales table drawn in SpecGrowth

Tabs == 1..NumTabs
NoTab == 0

---------------------------------------------------------------------------
(* Tables *)

Outlets == {"T NAGAR", "ADYAR"}
YearNums == {2023, 2024, 2025}
SalesValues == {0, 100, 150, 100000, 150000}

\* A Year cell is a string in a freshly computed table (app.py compares it
\* with '2023') and an integer after pandas has parsed it from CSV text.
StrYear(v) == <<"str", v>>
IntYear(v) == <<"int", v>>
TxtYear(v) == <<"txt", v>>

BrandOf(o) == "NATURALS"

SalesRow(o, y, v) ==
    [outlet |-> o, brand |-> BrandOf(o), year |-> y, month |-> "January",
     sales |-> v]

\* DataFrame.to_csv: every cell becomes text.
ToCsv(df) == {[r EXCEPT !.year = TxtYear(r.year[2])] : r \in df}

\* pandas.read_csv: a column of digit strings is inferred as int64.
ParseCsv(body) == {[r EXCEPT !.year = IntYear(r.year[2])] : r \in body}

Absent == [kind |-> "absent", body |-> {}]
Garbled == [kind |-> "garbled", body |-> {}]
CsvObject(df) == [kind |-> "csv", body |-> ToCsv(df)]

---------------------------------------------------------------------------
(* s3_utils.py *)

\* What can go wrong in one call: nothing, boto3.client raising, a
\* ClientError other than not-found (access denied), a botocore error that
\* is not a ClientError (endpoint unreachable).
Faults == {"none", "client", "denied", "network"}

Ret(v) == [st |-> "ret", val |-> v, err |-> "none"]
Raise(e) == [st |-> "raise", val |-> {}, err |-> e]

\* get_s3_client: any failure is re-raised as a plain Exception.
get_s3_client(f) == IF f = "client" THEN Raise("Exception") ELSE Ret({})

\* read_csv_from_s3: only ClientError is caught; NoSuchKey becomes
\* FileNotFoundError, other ClientErrors a plain Exception.  Whatever else
\* is raised inside the try block leaves the function as it is.
read_csv_from_s3(obj, f) ==
    IF get_s3_client(f).st = "raise" THEN get_s3_client(f)
    ELSE IF f = "network" THEN Raise("BotoCoreError")
    ELSE IF f = "denied" THEN Raise("Exception")
    ELSE IF obj.kind = "absent" THEN Raise("FileNotFoundError")
    ELSE IF obj.kind = "garbled" THEN Raise("UnicodeDecodeError")
    ELSE Ret(ParseCsv(obj.body))

\* A save that leaves a truncated object behind when it fails.
save_df_to_s3_Truncating(obj, df, f) ==
    IF f = "none" THEN [st |-> "ret", val |-> CsvObject(df), err |-> "none"]
    ELSE [st |-> "raise", val |-> Garbled, err |-> "Exception"]

\* save_df_to_s3: every exception is caught and re-raised as a plain
\* Exception; put_object replaces the object atomically, so a failed save
\* leaves the object obj as it was.  val is the object afterwards.
save_df_to_s3(obj, df, f) ==
    IF f = "none" THEN [st |-> "ret", val |-> CsvObject(df), err |-> "none"]
    ELSE [st |-> "raise", val |-> obj, err |-> "Exception"]

\* An existence check that takes every ClientError for "not there".
check_file_exists_in_s3_ErrorIsMiss(obj, f) ==
    IF get_s3_client(f).st = "raise" THEN get_s3_client(f)
    ELSE IF f = "network" THEN Raise("BotoCoreError")
    ELSE IF f = "denied" THEN Ret(FALSE)
    ELSE IF obj.kind = "absent" THEN Ret(FALSE)
    ELSE Ret(TRUE)

\* check_file_exists_in_s3: True, False on a 404 ClientError, a plain
\* Exception on any other ClientError; other exceptions pass through.
check_file_exists_in_s3(obj, f) ==
    IF get_s3_client(f).st = "raise" THEN get_s3_client(f)
    ELSE IF f = "network" THEN Raise("BotoCoreError")
    ELSE IF f = "denied" THEN Raise("Exception")
    ELSE IF obj.kind = "absent" THEN Ret(FALSE)
    ELSE Ret(TRUE)

---------------------------------------------------------------------------
(* app.py: load_data under @st.cache_data *)

NoMemo == [set |-> FALSE, sales |-> {}, service |-> "empty"]
Memo(s, sv) == [set |-> TRUE, sales |-> s, service |-> sv]

\* load_processed_service_data: the service table, or an empty table when
\* the service export could not be processed.
ServiceOutcomes == {"loaded", "empty"}

\* preprocess_sales_data: the canonical table of the raw export.
preprocess_sales_data == raw

PcValues == {"idle", "wait", "exists", "read", "compute", "save", "service",
             "shown", "failed"}

\* Sessions that are inside load_data.
InFlight == {s \in Tabs : pc[s] \notin {"idle", "shown", "failed"}}

\* The script (re)runs and calls load_data(); st.cache_data looks the entry
\* up without taking a lock: a hit returns the memoized value at once.
Call(s) ==
    /\ pc[s] \in {"idle", "shown", "failed"}
    /\ nLoads + Cardinality(InFlight) < MaxLoads
    /\ IF memo.set
       THEN /\ pc' = [pc EXCEPT ![s] = "shown"]
            /\ result' = [result EXCEPT ![s] = memo]
            /\ via' = [via EXCEPT ![s] = "memo"]
            /\ nLoads' = nLoads + 1
       ELSE /\ pc' = [pc EXCEPT ![s] = "wait"]
            /\ via' = [via EXCEPT ![s] = "none"]
            /\ UNCHANGED <<result, nLoads>>
    /\ err' = [err EXCEPT ![s] = "none"]
    /\ seen' = [seen EXCEPT ![s] = "none"]
    /\ UNCHANGED <<raw, blob, memo, lock, local, nComputes, everComputes,
                   restarts, clean, lastSave>>
    /\ UNCHANGED growthVars

\* A memo whose miss path takes no lock.
LockFreeUnguarded == TRUE

\* st.cache_data's miss path waits for the entry's compute lock.
LockFree == lock = NoTab

\* After the lock is taken the entry is looked up again.
Recheck == memo.set

\* The miss path: take the compute lock, look the entry up again, and only
\* then run the body of load_data.
Acquire(s) ==
    /\ pc[s] = "wait"
    /\ LockFree
    /\ IF Recheck
       THEN /\ pc' = [pc EXCEPT ![s] = "shown"]
            /\ result' = [result EXCEPT ![s] = memo]
            /\ via' = [via EXCEPT ![s] = "memo"]
            /\ nLoads' = nLoads + 1
            /\ UNCHANGED lock
       ELSE /\ pc' = [pc EXCEPT ![s] = "exists"]
            /\ lock' = s
            /\ UNCHANGED <<result, via, nLoads>>
    /\ UNCHANGED <<raw, blob, memo, local, err, seen, nComputes,
                   everComputes, restarts, clean, lastSave>>
    /\ UNCHANGED growthVars

\* An exception leaves load_data: nothing is memoized, the lock is released
\* and the script run ends with the error.
Fail(s, e) ==
    /\ pc' = [pc EXCEPT ![s] = "failed"]
    /\ err' = [err EXCEPT ![s] = e]
    /\ lock' = NoTab

\* A load path that recomputes whatever the existence check says.
AfterExistsRecompute(found) == "compute"

\* load_data lines 32-36: read the persisted table if it exists, compute
\* it otherwise.
AfterExists(found) == IF found THEN "read" ELSE "compute"

\* load_data line 32: the existence check.
CheckExists(s) ==
    /\ pc[s] = "exists"
    /\ \E f \in Faults :
         LET r == check_file_exists_in_s3(blob, f) IN
           /\ clean' = (clean /\ f = "none")
           /\ IF r.st = "raise"
              THEN /\ Fail(s, r.err)
                   /\ UNCHANGED seen
              ELSE /\ pc' = [pc EXCEPT ![s] = AfterExists(r.val)]
                   /\ seen' = [seen EXCEPT ![s] = IF r.val THEN "present"
                                                 ELSE "absent"]
                   /\ UNCHANGED <<err, lock>>
    /\ UNCHANGED <<raw, blob, memo, local, result, via, nComputes,
                   everComputes, nLoads, restarts, lastSave>>
    /\ UNCHANGED growthVars

\* load_data lines 33-34: the read of the persisted table.
ReadCached(s) ==
    /\ pc[s] = "read"
    /\ \E f \in Faults :
         LET r == read_csv_from_s3(blob, f) IN
           /\ clean' = (clean /\ f = "none")
           /\ IF r.st = "raise"
              THEN /\ Fail(s, r.err)
                   /\ UNCHANGED <<local, via>>
              ELSE /\ pc' = [pc EXCEPT ![s] = "service"]
                   /\ local' = [local EXCEPT ![s] = r.val]
                   /\ via' = [via EXCEPT ![s] = "read"]
                   /\ UNCHANGED <<err, lock>>
    /\ UNCHANGED <<raw, blob, memo, result, seen, nComputes, everComputes,
                   nLoads, restarts, lastSave>>
    /\ UNCHANGED growthVars

\* load_data line 36: the compute function runs.
Compute(s) ==
    /\ pc[s] = "compute"
    /\ pc' = [pc EXCEPT ![s] = "save"]
    /\ local' = [local EXCEPT ![s] = preprocess_sales_data]
    /\ via' = [via EXCEPT ![s] = "computed"]
    /\ nComputes' = nComputes + 1
    /\ everComputes' = everComputes + 1
    /\ UNCHANGED <<raw, blob, memo, lock, result, err, seen, nLoads,
                   restarts, clean, lastSave>>
    /\ UNCHANGED growthVars

\* preprocess_sales_data persists its result; a failed write is logged and
\* the table is returned all the same.
Persist(s) ==
    /\ pc[s] = "save"
    /\ \E f \in Faults :
         LET r == save_df_to_s3(blob, local[s], f) IN
           /\ clean' = (clean /\ f = "none")
           /\ lastSave' = IF r.st = "raise" THEN "failed" ELSE "ok"
           /\ blob' = r.val
    /\ pc' = [pc EXCEPT ![s] = "service"]
    /\ UNCHANGED <<raw, memo, lock, local, result, err, via, seen,
                   nComputes, everComputes, nLoads, restarts>>
    /\ UNCHANGED growthVars

\* load_data lines 39-41: the service table is loaded, the pair is
\* returned, st.cache_data stores it and releases the compute lock.
Return(s) ==
    /\ pc[s] = "service"
    /\ \E sv \in ServiceOutcomes :
         /\ result' = [result EXCEPT ![s] = Memo(local[s], sv)]
         /\ memo' = Memo(local[s], sv)
    /\ pc' = [pc EXCEPT ![s] = "shown"]
    /\ lock' = NoTab
    /\ nLoads' = nLoads + 1
    /\ UNCHANGED <<raw, blob, local, err, via, seen, nComputes,
                   everComputes, restarts, clean, lastSave>>
    /\ UNCHANGED growthVars

\* The server process is restarted: the memo and the sessions are gone, the
\* blob store keeps what it has.
Restart ==
    /\ restarts < MaxRestarts
    /\ restarts' = restarts + 1
    /\ memo' = NoMemo
    /\ lock' = NoTab
    /\ pc' = [s \in Tabs |-> "idle"]
    /\ local' = [s \in Tabs |-> {}]
    /\ result' = [s \in Tabs |-> NoMemo]
    /\ err' = [s \in Tabs |-> "none"]
    /\ via' = [s \in Tabs |-> "none"]
    /\ seen' = [s \in Tabs |-> "none"]
    /\ nComputes' = 0
    /\ lastSave' = "none"
    /\ clean' = (clean /\ InFlight = {})
    /\ UNCHANGED <<raw, blob, everComputes, nLoads>>
    /\ UNCHANGED growthVars

\* Somebody else removes the object from the bucket.
EnvDelete ==
    /\ blob.kind # "absent"
    /\ blob' = Absent
    /\ clean' = FALSE
    /\ UNCHANGED <<raw, memo, lock, pc, local, result, err, via, seen,
                   nComputes, everComputes, nLoads, restarts, lastSave>>
    /\ UNCHANGED growthVars

\* Somebody else puts an object that is not UTF-8 text under the key.
EnvGarble ==
    /\ blob.kind # "garbled"
    /\ blob' = Garbled
    /\ clean' = FALSE
    /\ UNCHANGED <<raw, memo, lock, pc, local, result, err, via, seen,
                   nComputes, everComputes, nLoads, restarts, lastSave>>
    /\ UNCHANGED growthVars

\* The T NAGAR rows of the end-to-end scenario.
TNagarScenario ==
    {SalesRow("T NAGAR", StrYear(2023), 100000),
     SalesRow("T NAGAR", StrYear(2025), 150000)}

CacheRawTables ==
    {TNagarScenario,
     {SalesRow("ADYAR", StrYear(2024), 100)}}

GrowthIdle ==
    /\ sales_data = {}
    /\ service_data = {}
    /\ gpc = "off"
    /\ out = <<>>
    /\ category_file = Absent

Init ==
    /\ raw \in CacheRawTables
    /\ blob = Absent
    /\ memo = NoMemo
    /\ lock = NoTab
    /\ pc = [s \in Tabs |-> "idle"]
    /\ local = [s \in Tabs |-> {}]
    /\ result = [s \in Tabs |-> NoMemo]
    /\ err = [s \in Tabs |-> "none"]
    /\ via = [s \in Tabs |-> "none"]
    /\ seen = [s \in Tabs |-> "none"]
    /\ nComputes = 0
    /\ everComputes = 0
    /\ nLoads = 0
    /\ restarts = 0
    /\ clean = TRUE
    /\ lastSave = "none"
    /\ GrowthIdle

Next ==
    \/ \E s \in Tabs : Call(s)
    \/ \E s \in Tabs : Acquire(s)
    \/ \E s \in Tabs : CheckExists(s)
    \/ \E s \in Tabs : ReadCached(s)
    \/ \E s \in Tabs : Compute(s)
    \/ \E s \in Tabs : Persist(s)
    \/ \E s \in Tabs : Return(s)
    \/ Restart
    \/ EnvDelete
    \/ EnvGarble

Spec == Init /\ [][Next]_vars

---------------------------------------------------------------------------
(* Floating-point values of the growth computations *)

RECURSIVE GCD(_, _)
GCD(a, b) == IF b = 0 THEN a ELSE GCD(b, a % b)

Abs(x) == IF x < 0 THEN -x ELSE x

\* A float is a number n/d (d > 0, in lowest terms), +infinity or NaN.
NaN == [k |-> "nan", n |-> 0, d |-> 1]
Inf == [k |-> "inf", n |-> 0, d |-> 1]
Num(n, d) ==
    LET g == GCD(Abs(n), d) IN [k |-> "num", n |-> n \div g, d |-> d \div g]

IsNum(x) == x.k = "num"

\* a / b on numpy floats: NaN propagates, x/0 is +infinity for x > 0 and
\* NaN for x = 0; nothing is raised.  Sales are never negative.
FDiv(a, b) ==
    IF a.k = "nan" \/ b.k = "nan" THEN NaN
    ELSE IF b.n = 0 THEN (IF a.n = 0 THEN NaN ELSE Inf)
    ELSE Num(a.n * b.d, a.d * b.n)

\* (q - 1) * 100
PctOf(q) == IF q.k = "num" THEN Num((q.n - q.d) * 100, q.d) ELSE q

\* ((compare / base) - 1) * 100, as written at every growth computation.
GrowthPercent(base, compare) == PctOf(FDiv(compare, base))

\* prev_sales > 0 on a float: false for 0 and for NaN.
IsPositive(x) == x.k = "num" /\ x.n > 0

\* tab3, the center loop: the division is guarded by prev_sales > 0 and
\* every other case is float('inf').
CenterGrowth(prev, cur) ==
    IF IsPositive(prev) THEN GrowthPercent(prev, cur) ELSE Inf

\* f"{x:.<digits>f}%": the number rounded to that many decimals, and "inf%"
\* or "nan%" for the two special floats.  val is the number in units of
\* 10^-digits.
Pow10(digits) == IF digits = 1 THEN 10 ELSE 100
FormatPct(x, digits) ==
    IF x.k = "num"
    THEN [txt |-> "num",
          val |-> (2 * x.n * Pow10(digits) + x.d) \div (2 * x.d)]
    ELSE [txt |-> IF x.k = "inf" THEN "inf%" ELSE "nan%", val |-> 0]

NotAvailable == [txt |-> "N/A", val |-> 0]

\* tab3's table formatting: "N/A" for NaN and infinity.
FormatPctOrNA(x) ==
    IF x.k = "num" THEN FormatPct(x, 2) ELSE NotAvailable

---------------------------------------------------------------------------
(* pandas operations used by the tabs *)

RECURSIVE SumOf(_, _)
\* Series.sum() of column col over the rows; 0 for no rows.
SumOf(rows, col) ==
    IF rows = {} THEN 0
    ELSE LET r == CHOOSE x \in rows : TRUE IN r[col] + SumOf(rows \ {r}, col)

\* df[df[col] == v]
Where(df, col, v) == {r \in df : r[col] = v}

\* A group sum that keeps one row per group.
GroupSumFirstRow(df, key, col) ==
    [g \in {r[key] : r \in df} |->
        (CHOOSE r \in Where(df, key, g) : TRUE)[col]]

\* df.groupby(key)[col].sum(): one sum per key value that has rows.
GroupSum(df, key, col) ==
    [g \in {r[key] : r \in df} |-> SumOf(Where(df, key, g), col)]

\* A merge that keeps one of the shared keys only.
MergeKeysSingle(a, b) ==
    IF DOMAIN a \cap DOMAIN b = {} THEN {}
    ELSE {CHOOSE g \in DOMAIN a \cap DOMAIN b : TRUE}

\* pd.merge(a, b, on=key): the keys present on both sides.
MergeKeys(a, b) == DOMAIN a \cap DOMAIN b

RECURSIVE SortedSeq(_)
\* sorted(df['Year'].unique()): ascending; the cells of one table are all
\* strings or all integers.
SortedSeq(ys) ==
    IF ys = {} THEN <<>>
    ELSE LET m == CHOOSE y \in ys : \A z \in ys : y[2] <= z[2]
         IN <<m>> \o SortedSeq(ys \ {m})

YearsOf(df) == SortedSeq({r.year : r \in df})

SeqToSet(q) == {q[i] : i \in 1..Len(q)}

\* A pivot cell: the sum of the group, NaN where the group has no rows.
Cell(rows, col) == IF rows = {} THEN NaN ELSE Num(SumOf(rows, col), 1)

---------------------------------------------------------------------------
(* app.py: the growth computations of the tabs *)

Centers == {"ANNA NAGAR", "VELACHERY"}
ServiceValues == {0, 100, 150}

ServiceRow(c, y, v) == [center |-> c, year |-> y, total_sales |-> v]

\* A growth loop that compares every period with the first one.
PrevOfFixedBase(j) == 1

\* years[i-1] for current_year = years[i]: the period just before.
PrevOf(j) == j - 1

\* tab2, lines 158-207: the selected outlet's pivot (months x years) and one
\* growth column per pair of neighbouring year columns.
OutletYoY(df, outlet) ==
    LET od == Where(df, "outlet", outlet)
        ys == YearsOf(od)
        months == {r.month : r \in od}
        cell(y, m) == Cell({r \in od : r.year = y /\ r.month = m}, "sales")
    IN  IF Len(ys) > 1
        THEN [i \in 1..(Len(ys) - 1) |->
                [prev |-> ys[PrevOf(i + 1)], cur |-> ys[i + 1],
                 cells |-> {[month |-> m,
                             base |-> cell(ys[PrevOf(i + 1)], m),
                             compare |-> cell(ys[i + 1], m),
                             pct |-> GrowthPercent(cell(ys[PrevOf(i + 1)], m),
                                                   cell(ys[i + 1], m))]
                            : m \in months}]]
        ELSE <<>>

\* tab3, lines 546-602: per center one growth value per pair of
\* neighbouring years of the service table; a center without rows in a year
\* has NaN in the pivot.
CenterGrowthRows(sv) ==
    LET ys == YearsOf(sv)
        cell(c, y) == Cell({r \in sv : r.center = c /\ r.year = y},
                           "total_sales")
    IN  IF sv # {} /\ Len(ys) > 1
        THEN {[center |-> c,
               cols |-> [i \in 1..(Len(ys) - 1) |->
                           [prev |-> ys[PrevOf(i + 1)], cur |-> ys[i + 1],
                            base |-> cell(c, ys[PrevOf(i + 1)]),
                            compare |-> cell(c, ys[i + 1]),
                            pct |-> CenterGrowth(cell(c, ys[PrevOf(i + 1)]),
                                                 cell(c, ys[i + 1]))]]]
              : c \in {r.center : r \in sv}}
        ELSE {}

\* tab3, lines 616-636: the melted growth values handed to px.bar as y and
\* text.
CenterChart(rows) ==
    UNION {{r.cols[i].pct : i \in 1..Len(r.cols)} : r \in rows}

\* tab3, lines 639-644: the growth table cells.
CenterTable(rows) ==
    UNION {{[key |-> r.center, col |-> i,
             text |-> FormatPctOrNA(r.cols[i].pct)] : i \in 1..Len(r.cols)}
           : r \in rows}

\* tab4, lines 763-777 (and 712-726): group both periods by outlet, merge on
\* the outlet, growth amount and percent per merged row.
SalonGrowth(base_data, compare_data) ==
    LET b == GroupSum(base_data, "outlet", "sales")
        c == GroupSum(compare_data, "outlet", "sales")
    IN  {[key |-> g, base |-> b[g], compare |-> c[g],
          amount |-> c[g] - b[g],
          pct |-> GrowthPercent(Num(b[g], 1), Num(c[g], 1))]
         : g \in MergeKeys(b, c)}

\* tab4, lines 845-855 and 915-924: the same per month and per brand,
\* percent only.
PctGrowth(base_data, compare_data, key) ==
    LET b == GroupSum(base_data, key, "sales")
        c == GroupSum(compare_data, key, "sales")
    IN  {[key |-> g, base |-> b[g], compare |-> c[g],
          pct |-> GrowthPercent(Num(b[g], 1), Num(c[g], 1))]
         : g \in MergeKeys(b, c)}

\* tab4, lines 825-827 (and 695-698): growth of the totals.
OverallGrowth(base_data, compare_data) ==
    [base |-> SumOf(base_data, "sales"),
     compare |-> SumOf(compare_data, "sales"),
     pct |-> GrowthPercent(Num(SumOf(base_data, "sales"), 1),
                           Num(SumOf(compare_data, "sales"), 1))]

\* '2023' in years and '2025' in years: a string is never equal to an
\* integer year.
Has2023And2025(ys) ==
    StrYear(2023) \in SeqToSet(ys) /\ StrYear(2025) \in SeqToSet(ys)

\* tab4, lines 983-997: T NAGAR's yearly sums in year order and the growth
\* of every year against the year before it.
TNagarGrowth(df) ==
    LET tn == Where(df, "outlet", "T NAGAR")
        ys == YearsOf(tn)
        yearly == GroupSum(tn, "year", "sales")
    IN  IF Len(ys) > 1
        THEN [i \in 1..(Len(ys) - 1) |->
                [prev |-> ys[PrevOf(i + 1)], cur |-> ys[i + 1],
                 base |-> yearly[ys[PrevOf(i + 1)]],
                 compare |-> yearly[ys[i + 1]],
                 text |-> FormatPct(
                     GrowthPercent(Num(yearly[ys[PrevOf(i + 1)]], 1),
                                   Num(yearly[ys[i + 1]], 1)), 2)]]
        ELSE <<>>

\* tab4, lines 1003-1012: the T NAGAR 2023 to 2025 metric, shown when both
\* '2023' and '2025' are among T NAGAR's years.
TNagarTotal(df) ==
    LET tn == Where(df, "outlet", "T NAGAR")
        ys == YearsOf(tn)
        yearly == GroupSum(tn, "year", "sales")
    IN  IF Len(ys) > 1 /\ Has2023And2025(ys)
        THEN {FormatPct(GrowthPercent(Num(yearly[StrYear(2023)], 1),
                                      Num(yearly[StrYear(2025)], 1)), 2)}
        ELSE {}

\* Nothing displayed yet.
NoOutput ==
    [selected_outlet |-> "", yoy |-> <<>>,
     center_growth |-> {}, center_chart |-> {}, center_table |-> {},
     total_metric |-> {}, salon_growth_2325 |-> {}, salon_chart_2325 |-> {},
     base_year |-> <<>>, compare_year |-> <<>>,
     base_options |-> {}, compare_options |-> {},
     growth_data |-> {}, growth_chart |-> {}, growth_table |-> {},
     overall |-> {}, overall_metric |-> {},
     monthly_growth |-> {}, brand_growth |-> {}, brand_annotations |-> {},
     tnagar_growth |-> <<>>, tnagar_total |-> {}]

\* with tab2: the outlet comparison for the selected outlet.
RenderTab2 ==
    /\ gpc = "tab2"
    /\ \E o \in {r.outlet : r \in sales_data} :
         out' = [out EXCEPT !.selected_outlet = o,
                            !.yoy = OutletYoY(sales_data, o)]
    /\ gpc' = "tab3"
    /\ UNCHANGED <<sales_data, service_data, category_file>>
    /\ UNCHANGED cacheVars

\* with tab3: the center growth analysis (when there is service data and
\* more than one service year).
RenderTab3 ==
    /\ gpc = "tab3"
    /\ LET rows == CenterGrowthRows(service_data) IN
         out' = [out EXCEPT !.center_growth = rows,
                            !.center_chart = CenterChart(rows),
                            !.center_table = CenterTable(rows)]
    /\ gpc' = "tab4"
    /\ UNCHANGED <<sales_data, service_data, category_file>>
    /\ UNCHANGED cacheVars

\* with tab4, the part that needs no selection: the 2023 to 2025 totals and
\* the T NAGAR analysis.
Tab4Fixed(o) ==
    LET ys == YearsOf(sales_data)
        d23 == Where(sales_data, "year", StrYear(2023))
        d25 == Where(sales_data, "year", StrYear(2025))
        shown == Has2023And2025(ys)
        sg == IF shown THEN SalonGrowth(d23, d25) ELSE {}
    IN  [o EXCEPT
           !.total_metric =
               IF shown THEN {FormatPct(OverallGrowth(d23, d25).pct, 2)}
               ELSE {},
           !.salon_growth_2325 = sg,
           !.salon_chart_2325 = {r.pct : r \in sg},
           !.tnagar_growth = TNagarGrowth(sales_data),
           !.tnagar_total = TNagarTotal(sales_data)]

\* with tab4, the year-to-year comparison for the selected base and
\* comparison year.
Tab4Compare(o, by, cy) ==
    LET bd == Where(sales_data, "year", by)
        cd == Where(sales_data, "year", cy)
        gd == SalonGrowth(bd, cd)
        ov == OverallGrowth(bd, cd)
        mg == PctGrowth(bd, cd, "month")
        bg == PctGrowth(bd, cd, "brand")
    IN  [o EXCEPT
           !.base_year = by, !.compare_year = cy,
           !.growth_data = gd,
           !.growth_chart = {r.pct : r \in gd},
           !.growth_table = {[key |-> r.key, text |-> FormatPct(r.pct, 2)]
                             : r \in gd},
           !.overall = {ov},
           !.overall_metric = {FormatPct(ov.pct, 2)},
           !.monthly_growth = mg,
           !.brand_growth = bg,
           !.brand_annotations = {[key |-> r.key,
                                   text |-> FormatPct(r.pct, 1)] : r \in bg}]

\* st.selectbox: one of the options, None when there is none.
None == <<"none", 0>>
Selectbox(options) == IF options = {} THEN {None} ELSE options

\* A base year selectbox that offers every year.
BaseYearOptionsAll(ys) == SeqToSet(ys)

\* line 753: years[:-1]
BaseYearOptions(ys) == SeqToSet(SubSeq(ys, 1, Len(ys) - 1))

\* line 757: [y for y in years if y > base_year]
CompareYearOptions(ys, base_year) ==
    {y \in SeqToSet(ys) : y[2] > base_year[2]}

\* with tab4: the whole tab.  The base year is one of years[:-1], the
\* comparison year one of the later years.
RenderTab4 ==
    /\ gpc = "tab4"
    /\ LET ys == YearsOf(sales_data) IN
         IF Len(ys) >= 2
         THEN \E by \in Selectbox(BaseYearOptions(ys)) :
                \E cy \in Selectbox(CompareYearOptions(ys, by)) :
                   out' = [Tab4Compare(Tab4Fixed(out), by, cy) EXCEPT
                              !.base_options = BaseYearOptions(ys),
                              !.compare_options = CompareYearOptions(ys, by)]
         ELSE out' = Tab4Fixed(out)
    /\ gpc' = "done"
    /\ UNCHANGED <<sales_data, service_data, category_file>>
    /\ UNCHANGED cacheVars

\* A filter interaction reruns the script; nothing of the last run's growth
\* results is kept.
Rerun ==
    /\ gpc = "done"
    /\ gpc' = "tab2"
    /\ out' = NoOutput
    /\ UNCHANGED <<sales_data, service_data, category_file>>
    /\ UNCHANGED cacheVars

\* The tables a script run can start from.
TableKeys == Outlets \X YearNums
KeySets == {K \in SUBSET TableKeys : K # {} /\ Cardinality(K) <= MaxRows}

RawSalesTables ==
    UNION {{{SalesRow(k[1], StrYear(k[2]), f[k]) : k \in K}
            : f \in [K -> SalesValues]} : K \in KeySets}

\* What load_data hands to the script for a raw table: the freshly computed
\* table, or the table read back from the persisted CSV.
LoadedForms(r) == {r, read_csv_from_s3(CsvObject(r), "none").val}

ServiceKeys == Centers \X YearNums
ServiceKeySets ==
    {K \in SUBSET ServiceKeys : K # {} /\ Cardinality(K) <= MaxRows}

ServiceTables ==
    UNION {{{ServiceRow(k[1], IntYear(k[2]), f[k]) : k \in K}
            : f \in [K -> ServiceValues]} : K \in ServiceKeySets}

CacheIdle ==
    /\ raw = {}
    /\ blob = Absent
    /\ memo = NoMemo
    /\ lock = NoTab
    /\ pc = [s \in Tabs |-> "shown"]
    /\ local = [s \in Tabs |-> {}]
    /\ result = [s \in Tabs |-> NoMemo]
    /\ err = [s \in Tabs |-> "none"]
    /\ via = [s \in Tabs |-> "none"]
    /\ seen = [s \in Tabs |-> "none"]
    /\ nComputes = 0
    /\ everComputes = 0
    /\ nLoads = 0
    /\ restarts = 0
    /\ clean = TRUE
    /\ lastSave = "none"

\* A script run starts with the loaded tables: any sales table without
\* service data, or the T NAGAR scenario with any service table.
InitGrowth ==
    /\ CacheIdle
    /\ \/ /\ \E r \in RawSalesTables : sales_data \in LoadedForms(r)
          /\ service_data = {}
       \/ /\ sales_data \in LoadedForms(TNagarScenario)
          /\ service_data \in ServiceTables
    /\ gpc = "tab2"
    /\ out = NoOutput
    /\ category_file = Absent

NextGrowth ==
    \/ RenderTab2
    \/ RenderTab3
    \/ RenderTab4
    \/ Rerun

SpecGrowth == InitGrowth /\ [][NextGrowth]_vars

---------------------------------------------------------------------------
(* app.py: the filters, metrics and month charts of the tabs (SpecViews) *)

MaxViewRows == 3    \* rows of a table drawn in SpecViews

\* month_order, as written in tab1, tab2 and tab4.
month_order ==
    <<"January", "February", "March", "April", "May", "June", "July",
      "August", "September", "October", "November", "December">>

\* The rank pd.Categorical(..., categories=month_order, ordered=True) gives
\* a month.
MonthIndex(m) == CHOOSE i \in 1..Len(month_order) : month_order[i] = m

ViewMonths == {"January", "February"}
ViewYears == {2023, 2024}

\* (MTD SALES, MTD BILLS) of a row.
ViewValues == {<<100, 0>>, <<300, 2>>}

BrandName(o) == IF o = "T NAGAR" THEN "NATURALS" ELSE "PAGE 3"

ViewRow(o, y, m, v) ==
    [outlet |-> o, brand |-> BrandName(o), year |-> y, month |-> m,
     sales |-> v[1], bills |-> v[2]]

\* A selectbox value: "All", or one of the column's values.
AllSel == [all |-> TRUE, v |-> "All"]
Sel(v) == [all |-> FALSE, v |-> v]

\* ["All"] + list(values)
WithAll(vals) == {AllSel} \cup {Sel(v) : v \in vals}

\* A filter that compares whatever is selected, "All" included.
FilterEqAlways(df, col, sel) == Where(df, col, sel.v)

\* if selected != "All": df = df[df[col] == selected]
FilterEq(df, col, sel) == IF sel.all THEN df ELSE Where(df, col, sel.v)

\* Filters that cut the rows out of the loaded table itself.
AfterFiltersInPlace(df, filtered) == filtered

\* lines 74 and 436: filtered = df.copy(), and every filter step binds the
\* name filtered to a new frame; the loaded table df keeps its rows.
AfterFilters(df, filtered) == df

\* tab1, lines 74-83: the filters run on a copy, one after the other.
FilteredSales(df, sy, sb, sm) ==
    FilterEq(FilterEq(FilterEq(df, "year", sy), "brand", sb), "month", sm)

\* An average that divides whatever the number of bills is.
AvgBillUnguarded(total_sales, total_bills) ==
    FDiv(Num(total_sales, 1), Num(total_bills, 1))

\* tab1, line 97: total_sales / total_bills if total_bills > 0 else 0
AvgBill(total_sales, total_bills) ==
    IF total_bills > 0
    THEN FDiv(Num(total_sales, 1), Num(total_bills, 1))
    ELSE Num(0, 1)

RECURSIVE SortByFn(_, _)
\* sort_values on one key column: the rows in ascending order of k.
SortByFn(S, k) ==
    IF S = {} THEN <<>>
    ELSE LET m == CHOOSE x \in S : \A y \in S : k[x] <= k[y]
         IN <<m>> \o SortByFn(S \ {m}, k)

Column(q, col) == [i \in 1..Len(q) |-> q[i][col]]

RECURSIVE FirstSeen(_)
\* The values of a sequence in the order of their first appearance.
FirstSeen(q) ==
    IF q = <<>> THEN <<>>
    ELSE LET rest == FirstSeen(SubSeq(q, 1, Len(q) - 1))
         IN IF q[Len(q)] \in SeqToSet(rest) THEN rest
            ELSE Append(rest, q[Len(q)])

RECURSIVE KeepWhere(_, _, _)
KeepWhere(q, col, v) ==
    IF q = <<>> THEN <<>>
    ELSE IF Head(q)[col] = v THEN <<Head(q)>> \o KeepWhere(Tail(q), col, v)
         ELSE KeepWhere(Tail(q), col, v)

RECURSIVE TraceConcat(_, _)
TraceConcat(q, colors) ==
    IF colors = <<>> THEN <<>>
    ELSE KeepWhere(q, "year", Head(colors)) \o TraceConcat(q, Tail(colors))

\* px.bar / px.line with x='Month' and color='Year' over the rows q: one
\* trace per Year value, in the order of first appearance, when Year is a
\* string column, and one trace in row order when it is numeric.  The
\* category axis lists the months in the order the traces bring them.
PxMonthAxis(q) ==
    LET drawn == IF q # <<>> /\ q[1].year[1] = "str"
                 THEN TraceConcat(q, FirstSeen(Column(q, "year")))
                 ELSE q
    IN  FirstSeen(Column(drawn, "month"))

\* groupby(['Month', 'Year'])['MTD SALES'].sum().reset_index()
MonthYearSums(df) ==
    {[month |-> k[1], year |-> k[2],
      sales |-> SumOf({r \in df : r.month = k[1] /\ r.year = k[2]}, "sales")]
     : k \in {<<r.month, r.year>> : r \in df}}

\* tab1, lines 128-147: the monthly trend of the filtered rows, sorted by
\* Month_Sorted.
TrendAxis(fd) ==
    LET ms == MonthYearSums(fd)
    IN  PxMonthAxis(SortByFn(ms, [r \in ms |-> MonthIndex(r.month)]))

NoView == [tab |-> "none"]

\* with tab1: the filters, the key metrics and the monthly trend.
RenderTab1 ==
    /\ gpc = "tab1"
    /\ \E sy \in {Sel(y) : y \in SeqToSet(YearsOf(sales_data))},
          sb \in WithAll({r.brand : r \in sales_data}),
          sm \in WithAll({r.month : r \in sales_data}) :
         LET fd == FilteredSales(sales_data, sy, sb, sm)
             ts == SumOf(fd, "sales")
             tb == SumOf(fd, "bills")
         IN  /\ out' = [tab |-> "tab1",
                     selected_year |-> sy, selected_brand |-> sb,
                     selected_month |-> sm,
                     filtered_data |-> fd,
                     total_sales |-> ts, total_bills |-> tb,
                     avg_bill_value |-> AvgBill(ts, tb),
                     trend_shown |-> sm.all,
                     trend_axis |-> IF sm.all THEN TrendAxis(fd) ELSE <<>>]
             /\ sales_data' = AfterFilters(sales_data, fd)
    /\ gpc' = "chart2"
    /\ UNCHANGED <<service_data, category_file>>
    /\ UNCHANGED cacheVars

\* The rows in ascending order of (Year, Month_Sorted).
ByYearMonth(S) ==
    SortByFn(S, [r \in S |-> r.year[2] * 100 + MonthIndex(r.month)])

\* The months in calendar order: the index of a pivot on Month_Sorted, the
\* rows of a frame sorted by Month_Sorted.
ByMonth(ms) == SortByFn(ms, [m \in ms |-> MonthIndex(m)])

\* tab2, lines 158-183: the selected outlet's sums per (Year, Month), sorted
\* by Year and Month_Sorted, drawn with x='Month' and color='Year'.
OutletYearlyAxis(df, outlet) ==
    PxMonthAxis(ByYearMonth(MonthYearSums(Where(df, "outlet", outlet))))

\* with tab2: the yearly comparison chart of the selected outlet and the
\* index of the year-over-year pivot.
RenderTab2Chart ==
    /\ gpc = "chart2"
    /\ \E o \in {r.outlet : r \in sales_data} :
         LET od == Where(sales_data, "outlet", o) IN
           out' = [tab |-> "tab2",
                   selected_outlet |-> o,
                   chart_axis |-> OutletYearlyAxis(sales_data, o),
                   pivot_months |->
                       IF Cardinality({r.year : r \in od}) > 1
                       THEN ByMonth({r.month : r \in od}) ELSE <<>>]
    /\ gpc' = "category"
    /\ UNCHANGED <<sales_data, service_data, category_file>>
    /\ UNCHANGED cacheVars

\* head(15)
TopCount == 15

\* q.head(n)
Head_n(q, n) == SubSeq(q, 1, IF Len(q) < n THEN Len(q) ELSE n)

\* sort_values(col, ascending=False): descending by the column; rows with
\* the same value stay in the order they have in the frame.
SortDescending(q, col) ==
    LET idx == 1..Len(q)
        order == SortByFn(idx, [i \in idx |->
                                   (0 - q[i][col]) * (Len(q) + 1) + i])
    IN  [j \in idx |-> q[order[j]]]

\* tab3, lines 319-320
top_categories(category_data) ==
    Head_n(SortDescending(category_data, "sales"), TopCount)

\* The category-breakdown file: a CSV with the expected columns (its rows in
\* file order), a CSV without them, an object that is not text, or nothing.
CategoryCsv(q) == [kind |-> "csv", body |-> {}, rows |-> q]
OtherCsv == [kind |-> "other", body |-> {}, rows |-> <<>>]
NoCategoryFile == [kind |-> "absent", body |-> {}, rows |-> <<>>]
GarbledCategoryFile == [kind |-> "garbled", body |-> {}, rows |-> <<>>]

\* tab3, lines 297-386: the category breakdown inside try/except Exception.
\* What the section leaves on the page: the charts, the "not available"
\* note, or the error message.
CategoryBreakdown(obj, f1, f2) ==
    LET e == check_file_exists_in_s3(obj, f1)
        r == read_csv_from_s3(obj, f2)
    IN  IF e.st = "raise" THEN [category |-> "error", top |-> <<>>]
        ELSE IF ~e.val THEN [category |-> "not available", top |-> <<>>]
        ELSE IF r.st = "raise" THEN [category |-> "error", top |-> <<>>]
        ELSE IF obj.kind = "other" THEN [category |-> "error", top |-> <<>>]
        ELSE [category |-> "charts", top |-> top_categories(obj.rows)]

\* with tab3, first part: the category breakdown.  Whatever happens in it,
\* the script goes on with the service analysis.
RenderCategory ==
    /\ gpc = "category"
    /\ \E f1 \in Faults, f2 \in Faults :
         LET c == CategoryBreakdown(category_file, f1, f2) IN
           out' = [tab |-> "category", category |-> c.category,
                   top |-> c.top]
    /\ gpc' = "service"
    /\ UNCHANGED <<sales_data, service_data, category_file>>
    /\ UNCHANGED cacheVars

\* A script that runs the service analysis whatever was loaded.
has_service_data_Always(sv) == TRUE

\* line 49: has_service_data = not service_data.empty
has_service_data(sv) == sv # {}

CategoryOf(t) == IF t = "RETAIL" THEN "Product" ELSE "Service"

ViewServiceRow(c, t, y, v) ==
    [center |-> c, service_type |-> t, category |-> CategoryOf(t),
     year |-> y, total_sales |-> v[1], transaction_count |-> v[2]]

\* The columns a service table may or may not have.
OptionalColumns == {"item_category", "business_unit", "item_subcategory"}

\* A cell without a value (NaN).
MissingCell == "NaN"

\* 'Item Category' in service_data.columns: the rows of one table all have
\* the same columns.
Columns(df) == IF df = {} THEN {} ELSE DOMAIN (CHOOSE r \in df : TRUE)

\* lines 410-433: ["All"] + sorted(df[col].dropna().unique()) when the table
\* has the column, else the selection is "All".
OptionalOptions(df, col) ==
    IF col \in Columns(df)
    THEN WithAll({r[col] : r \in df} \ {MissingCell})
    ELSE {AllSel}

\* lines 448-458: if selected != "All" and col in df.columns: filter
FilterIfColumn(df, col, sel) ==
    IF ~sel.all /\ col \in Columns(df) THEN Where(df, col, sel.v) ELSE df

\* tab3, lines 436-458: the service filters, on a copy: the year always,
\* then center, service type, item category, business unit and item
\* subcategory.
FilteredService(sv, sy, sc, st, sub, bu, isub) ==
    FilterIfColumn(
        FilterIfColumn(
            FilterIfColumn(
                FilterEq(FilterEq(Where(sv, "year", sy.v), "center", sc),
                         "service_type", st),
                "item_category", sub),
            "business_unit", bu),
        "item_subcategory", isub)

\* groupby(key).agg({'Total_Sales': 'sum', 'Transaction_Count': 'sum'}) and
\* Average_Transaction = Total_Sales / Transaction_Count
AverageTransaction(fd, key) ==
    {[key |-> g,
      total_sales |-> SumOf(Where(fd, key, g), "total_sales"),
      transaction_count |-> SumOf(Where(fd, key, g), "transaction_count"),
      average |-> FDiv(Num(SumOf(Where(fd, key, g), "total_sales"), 1),
                       Num(SumOf(Where(fd, key, g), "transaction_count"), 1))]
     : g \in {r[key] : r \in fd}}

\* f"Rs{x:,.0f}": the rounded number, "inf" or "nan".
FormatMoney(x) ==
    IF x.k = "num"
    THEN [txt |-> "num", val |-> (2 * x.n + x.d) \div (2 * x.d)]
    ELSE [txt |-> x.k, val |-> 0]

\* groupby([col, 'Year'])['MTD SALES'].sum()
SumsByYear(df, col) ==
    {[key |-> k[1], year |-> k[2],
      sales |-> SumOf({r \in df : r[col] = k[1] /\ r.year = k[2]}, "sales")]
     : k \in {<<r[col], r.year>> : r \in df}}

\* tab3, lines 388-644: the service analysis.
ServiceAnalysis(sv, sy, sc, st, sub, bu, isub) ==
    LET fd == FilteredService(sv, sy, sc, st, sub, bu, isub)
        cd == AverageTransaction(fd, "service_type")
    IN  [tab |-> "service", state |-> "service",
         steps |-> {"filters", "category_metrics", "center_sales"}
                   \cup (IF Len(YearsOf(sv)) > 1 THEN {"center_growth"}
                         ELSE {}),
         selected_year |-> sy, selected_center |-> sc, selected_type |-> st,
         selected_subcategory |-> sub, selected_business_unit |-> bu,
         selected_item_subcategory |-> isub,
         filtered_service_data |-> fd,
         category_details |->
             {[key |-> r.key, total_sales |-> r.total_sales,
               transaction_count |-> r.transaction_count,
               average_text |-> FormatMoney(r.average)] : r \in cd},
         center_sales |-> AverageTransaction(fd, "center"),
         brand_sales |-> {}, salon_yearly_sales |-> {}]

\* tab3, lines 645-680: the warning and the sales-only analysis.
SalesOnlyAnalysis(df) ==
    [tab |-> "service", state |-> "unavailable", steps |-> {},
     selected_year |-> Sel(None), selected_center |-> AllSel,
     selected_type |-> AllSel,
     selected_subcategory |-> AllSel, selected_business_unit |-> AllSel,
     selected_item_subcategory |-> AllSel,
     filtered_service_data |-> {}, category_details |-> {},
     center_sales |-> {},
     brand_sales |-> SumsByYear(df, "brand"),
     salon_yearly_sales |-> SumsByYear(df, "outlet")]

\* with tab3, second part: the service analysis, or the sales-only analysis
\* when no service data was loaded.
RenderService ==
    /\ gpc = "service"
    /\ IF has_service_data(service_data)
       THEN \E y \in Selectbox(SeqToSet(YearsOf(service_data))),
               sc \in WithAll({r.center : r \in service_data}),
               st \in WithAll({r.service_type : r \in service_data}),
               sub \in OptionalOptions(service_data, "item_category"),
               bu \in OptionalOptions(service_data, "business_unit"),
               isub \in OptionalOptions(service_data, "item_subcategory") :
              /\ out' = ServiceAnalysis(service_data, Sel(y), sc, st,
                                        sub, bu, isub)
              /\ service_data' =
                    AfterFilters(service_data,
                                 FilteredService(service_data, Sel(y), sc, st,
                                                 sub, bu, isub))
       ELSE /\ out' = SalesOnlyAnalysis(sales_data)
            /\ UNCHANGED service_data
    /\ gpc' = "sums"
    /\ UNCHANGED <<sales_data, category_file>>
    /\ UNCHANGED cacheVars

\* The rows of the loaded table in file order: by year, then by month.
RowOrder(df) ==
    SortByFn(df, [r \in df |-> (r.year[2] * 100 + MonthIndex(r.month)) * 10
                               + (IF r.outlet = "T NAGAR" THEN 0 ELSE 1)])

\* tab4, lines 961-978: T NAGAR's rows as they are, drawn with x='Month'
\* and color='Year'.
TNagarAxis(df) == PxMonthAxis(RowOrder(Where(df, "outlet", "T NAGAR")))

\* tab4, lines 852-871: the months present in both periods, sorted by
\* Month_Sorted, as the x of the growth bars.
MonthlyGrowthAxis(base_data, compare_data) ==
    ByMonth(MergeKeys(GroupSum(base_data, "month", "sales"),
                      GroupSum(compare_data, "month", "sales")))

\* tab4, lines 760-767, 825-826, 845-849, 915-918: the totals and the group
\* sums of one period.
PeriodSums(data) ==
    [total |-> SumOf(data, "sales"),
     by_salon |-> GroupSum(data, "outlet", "sales"),
     monthly |-> GroupSum(data, "month", "sales"),
     by_brand |-> GroupSum(data, "brand", "sales")]

\* with tab4: the sums of the selected base and comparison year, the growth
\* tables merged from them (per outlet, per month, per brand), the x axis of
\* the month-by-month growth and of the T NAGAR monthly chart.
RenderTab4Sums ==
    /\ gpc = "sums"
    /\ LET ys == YearsOf(sales_data) IN
         IF Len(ys) >= 2
         THEN \E by \in Selectbox(BaseYearOptions(ys)) :
                \E cy \in Selectbox(CompareYearOptions(ys, by)) :
                   LET bd == Where(sales_data, "year", by)
                       cd == Where(sales_data, "year", cy)
                   IN  out' = [tab |-> "tab4", compared |-> TRUE,
                               base_year |-> by, compare_year |-> cy,
                               base |-> PeriodSums(bd),
                               compare |-> PeriodSums(cd),
                               growth_data |-> SalonGrowth(bd, cd),
                               monthly_growth |-> PctGrowth(bd, cd, "month"),
                               brand_growth |-> PctGrowth(bd, cd, "brand"),
                               growth_axis |-> MonthlyGrowthAxis(bd, cd),
                               tnagar_axis |-> TNagarAxis(sales_data)]
         ELSE out' = [tab |-> "tab4", compared |-> FALSE,
                      base_year |-> None, compare_year |-> None,
                      base |-> PeriodSums({}), compare |-> PeriodSums({}),
                      growth_data |-> {}, monthly_growth |-> {},
                      brand_growth |-> {},
                      growth_axis |-> <<>>,
                      tnagar_axis |-> TNagarAxis(sales_data)]
    /\ gpc' = "rendered"
    /\ UNCHANGED <<sales_data, service_data, category_file>>
    /\ UNCHANGED cacheVars

\* A filter interaction reruns the script from the top, over the same loaded
\* tables; nothing of the last run's output is kept.
RerunViews ==
    /\ gpc = "rendered"
    /\ gpc' = "tab1"
    /\ out' = NoView
    /\ UNCHANGED <<sales_data, service_data, category_file>>
    /\ UNCHANGED cacheVars

\* The tables a script run can start from.
ViewKeys == Outlets \X ViewYears \X ViewMonths
ViewKeySets ==
    {K \in SUBSET ViewKeys : K # {} /\ Cardinality(K) <= MaxViewRows}

ViewSalesTables ==
    UNION {{{ViewRow(k[1], StrYear(k[2]), k[3], f[k]) : k \in K}
            : f \in [K -> ViewValues]} : K \in ViewKeySets}

ServiceTypes == {"HAIR", "RETAIL"}
ViewServiceKeys == Centers \X ServiceTypes \X ViewYears
ViewServiceKeySets ==
    {K \in SUBSET ViewServiceKeys : K # {} /\ Cardinality(K) <= MaxViewRows}

ViewServiceTables ==
    UNION {{{ViewServiceRow(k[1], k[2], IntYear(k[3]), f[k]) : k \in K}
            : f \in [K -> ViewValues]} : K \in ViewServiceKeySets}

\* The values of the optional columns; an item category may be missing.
OptionalValues(col) ==
    CASE col = "item_category" -> {"Facial", "Hair Cut", MissingCell}
      [] col = "business_unit" -> {"Hair", "Skin"}
      [] col = "item_subcategory" -> {"Men", "Women"}

\* The rows that are drawn with optional columns.
DetailRows ==
    {ViewServiceRow("ANNA NAGAR", "HAIR", IntYear(2023), <<300, 2>>),
     ViewServiceRow("VELACHERY", "HAIR", IntYear(2023), <<300, 2>>)}

\* The cells of one row in the optional columns P.
DetailCells(P) ==
    {g \in [P -> UNION {OptionalValues(c) : c \in P}] :
        \A c \in P : g[c] \in OptionalValues(c)}

\* Service tables that have some of the optional columns.
DetailedServiceTables ==
    UNION {{{r @@ f[r] : r \in DetailRows}
            : f \in [DetailRows -> DetailCells(P)]}
           : P \in (SUBSET OptionalColumns) \ {{}}}

MaxCategoryRows == 2    \* rows of a category-breakdown file

\* The item categories, in ascending order of their names.
CategoryNames == <<"Facial", "Haircut", "Massage">>
CategorySales == {100, 200}

CategoryRow(n, v) == [name |-> n, unit |-> "Salon", sales |-> v]

\* The category-breakdown tables: up to MaxCategoryRows rows of distinct
\* item categories, in any file order.
CategoryTables ==
    {q \in UNION {[1..n -> {CategoryRow(CategoryNames[i], v)
                            : i \in 1..Len(CategoryNames),
                              v \in CategorySales}]
                  : n \in 1..MaxCategoryRows} :
        \A i, j \in 1..Len(q) : i # j => q[i].name # q[j].name}

\* One sales table for the runs that vary the service table or the category
\* file.
FixedSales ==
    {ViewRow("T NAGAR", StrYear(2023), "January", <<100, 0>>),
     ViewRow("T NAGAR", StrYear(2023), "February", <<300, 2>>),
     ViewRow("T NAGAR", StrYear(2024), "January", <<100, 0>>),
     ViewRow("T NAGAR", StrYear(2024), "February", <<300, 2>>)}

\* A script run starts with the loaded tables: any sales table without
\* service data, or the fixed sales table with any service table, or with
\* any category-breakdown file.
InitViews ==
    /\ CacheIdle
    /\ \/ /\ \E r \in ViewSalesTables : sales_data \in LoadedForms(r)
          /\ service_data = {}
          /\ category_file = NoCategoryFile
       \/ /\ sales_data = FixedSales
          /\ service_data \in ViewServiceTables \cup DetailedServiceTables
          /\ category_file = NoCategoryFile
       \/ /\ sales_data = FixedSales
          /\ service_data = {}
          /\ category_file \in {CategoryCsv(q) : q \in CategoryTables}
                               \cup {OtherCsv, GarbledCategoryFile}
    /\ gpc = "tab1"
    /\ out = NoView

NextViews ==
    \/ RenderTab1
    \/ RenderTab2Chart
    \/ RenderCategory
    \/ RenderService
    \/ RenderTab4Sums
    \/ RerunViews

SpecViews == InitViews /\ [][NextViews]_vars

---------------------------------------------------------------------------
(* The cached load path: C1 - C5 *)

Shown(s) == pc[s] = "shown"

\* C1: a load that finds no persisted table runs the compute function,
\* persists the result and returns it; a load that finds the persisted table
\* returns it (as parsed back from CSV) without running the compute
\* function; while the store works, nobody else touches the object and no
\* load is cut short, any number of loads run the compute function exactly
\* once.
C1_CachedLoad ==
    /\ \A s \in Tabs : Shown(s) /\ via[s] = "computed" =>
          /\ seen[s] = "absent"
          /\ result[s].sales = raw
          /\ clean => blob = CsvObject(raw)
    /\ \A s \in Tabs : Shown(s) /\ via[s] = "read" =>
          /\ seen[s] = "present"
          /\ result[s].sales = ParseCsv(ToCsv(raw))
          /\ nComputes = 0
    /\ clean /\ nLoads >= 1 => everComputes = 1

\* A second load, in a new process run, was served from the persisted table
\* that the first load computed and saved.
C1_Witness ==
    \E s \in Tabs :
        /\ Shown(s) /\ via[s] = "read"
        /\ clean /\ nLoads >= 2 /\ everComputes = 1 /\ restarts = 1

\* C2: in one process run the compute function runs at most once, however
\* the sessions' loads interleave, and once a load has returned (the entry is
\* memoized) no session is inside the body of load_data again: a rerun
\* neither recomputes nor saves.
C2_AtMostOneCompute ==
    /\ nComputes <= 1
    /\ memo.set =>
          \A s \in Tabs :
              pc[s] \notin {"exists", "read", "compute", "save", "service"}

\* Two sessions started their first load while the key was absent: one has
\* computed and is saving, the other waits for the compute lock.
C2_Witness ==
    \E s, t \in Tabs :
        /\ s # t
        /\ pc[s] = "save" /\ seen[s] = "absent"
        /\ pc[t] = "wait"
        /\ nComputes = 1

\* C3 as stated: after a failed write the load has returned the computed
\* table, no table is persisted under the key, and every later load
\* recomputes.
C3_NextLoadRecomputes ==
    \A s \in Tabs :
        lastSave = "failed" /\ Shown(s) =>
            /\ result[s].sales = raw
            /\ blob.kind # "csv"
            /\ via[s] = "computed"

\* C3 amended: after a failed write the load returns the computed table and
\* the failed write leaves the object as it was; the table is memoized, so
\* the later loads of that process run return it without recomputing; a load
\* that finds the key absent (the first one of a new process run) computes.
C3_WriteFailureState ==
    /\ lastSave = "failed" => blob.kind # "csv" /\ nComputes = 1
    /\ \A s \in Tabs :
          lastSave = "failed" /\ Shown(s) =>
              /\ result[s].sales = raw
              /\ via[s] \in {"computed", "memo"}
    /\ \A s \in Tabs :
          seen[s] = "absent" /\ pc[s] \in {"save", "service", "shown"} =>
              via[s] = "computed"

C3_FailedSaveStep ==
    \E s \in Tabs :
        pc[s] = "save" /\ pc'[s] = "service" /\ lastSave' = "failed"

C3_WriteFailure ==
    /\ []C3_WriteFailureState
    /\ [][C3_FailedSaveStep => blob' = blob]_vars

\* After a failed write, a later load of the same process run was served
\* from the memo.
C3_Witness ==
    /\ lastSave = "failed"
    /\ blob.kind = "absent"
    /\ \E s \in Tabs : Shown(s) /\ via[s] = "memo" /\ result[s].sales = raw

\* C4: the load path never fails because the cached object is absent at
\* read time; it falls back to recomputation.
C4_AbsentFallsBack ==
    \A s \in Tabs : pc[s] = "failed" => err[s] # "FileNotFoundError"

\* C5: a read of the table ends in one of three ways: the table, the
\* not-found error (only when the key is absent), or the storage error; no
\* other error leaves read_csv_from_s3.
C5_ReadOutcomes ==
    [][\A s \in Tabs :
          pc[s] = "read" /\ pc'[s] \in {"service", "failed"} =>
              \/ pc'[s] = "service" /\ local'[s] = ParseCsv(blob.body)
              \/ /\ pc'[s] = "failed"
                 /\ err'[s] \in {"FileNotFoundError", "Exception"}
                 /\ err'[s] = "FileNotFoundError" => blob.kind = "absent"]_vars

---------------------------------------------------------------------------
(* Growth: C6 - C10 *)

\* (sum(P1) / sum(P0) - 1) * 100 for sum(P0) > 0.
ExpectedPct(b, c) == Num((c - b) * 100, b)

\* The formatted growth cells, annotations and metrics of tab3 and tab4.
GrowthTexts ==
    {r.text : r \in out.growth_table}
    \cup out.overall_metric \cup out.total_metric
    \cup {r.text : r \in out.brand_annotations}
    \cup {out.tnagar_growth[i].text : i \in 1..Len(out.tnagar_growth)}
    \cup out.tnagar_total
    \cup {r.text : r \in out.center_table}

\* The growth values handed to charts as values or text.
GrowthChartValues ==
    out.growth_chart \cup out.salon_chart_2325 \cup out.center_chart
    \cup {r.pct : r \in out.monthly_growth}

\* C6: wherever growth is computed (per outlet, per brand, per month, per
\* center, overall) the amount is compare - base, the percent is
\* (compare / base - 1) * 100 when base > 0, and the percent is reported as
\* undefined when base is 0.
C6_GrowthFormula ==
    /\ \A r \in out.growth_data \cup out.salon_growth_2325 :
          /\ r.amount = r.compare - r.base
          /\ r.base > 0 => r.pct = ExpectedPct(r.base, r.compare)
    /\ \A r \in out.growth_data :
          r.base = 0 => [key |-> r.key, text |-> NotAvailable]
                            \in out.growth_table
    /\ \A r \in out.brand_growth :
          /\ r.base > 0 => r.pct = ExpectedPct(r.base, r.compare)
          /\ r.base = 0 => [key |-> r.key, text |-> NotAvailable]
                               \in out.brand_annotations
    /\ \A r \in out.monthly_growth :
          r.base > 0 => r.pct = ExpectedPct(r.base, r.compare)
    /\ \A r \in out.overall :
          /\ r.base > 0 => r.pct = ExpectedPct(r.base, r.compare)
          /\ r.base = 0 => out.overall_metric = {NotAvailable}
    /\ \A r \in out.center_growth : \A i \in 1..Len(r.cols) :
          LET g == r.cols[i] IN
            IsNum(g.base) /\ IsNum(g.compare) =>
              /\ g.base.n > 0 => g.pct = ExpectedPct(g.base.n, g.compare.n)
              /\ g.base.n = 0 =>
                    [key |-> r.center, col |-> i, text |-> NotAvailable]
                        \in out.center_table

\* A zero base followed by a non-zero compare value.
ZeroBase(b, c) == b = 0 /\ c > 0

\* C7: growth with a zero base and a non-zero compare value is shown as
\* "N/A" in every growth display: the outlet growth table, the overall
\* growth metric, the brand annotations, the T NAGAR table and the center
\* growth table; "inf%" or "nan%" is never shown for it.
C7_ZeroBaseIsNA ==
    /\ \A r \in out.growth_data :
          ZeroBase(r.base, r.compare) =>
              \A t \in out.growth_table :
                  t.key = r.key => t.text = NotAvailable
    /\ \A r \in out.overall :
          ZeroBase(r.base, r.compare) => out.overall_metric = {NotAvailable}
    /\ \A r \in out.brand_growth :
          ZeroBase(r.base, r.compare) =>
              \A t \in out.brand_annotations :
                  t.key = r.key => t.text = NotAvailable
    /\ \A i \in 1..Len(out.tnagar_growth) :
          LET g == out.tnagar_growth[i] IN
            ZeroBase(g.base, g.compare) => g.text = NotAvailable
    /\ \A r \in out.center_growth : \A i \in 1..Len(r.cols) :
          LET g == r.cols[i] IN
            IsNum(g.base) /\ IsNum(g.compare)
            /\ ZeroBase(g.base.n, g.compare.n) =>
              \A t \in out.center_table :
                  t.key = r.center /\ t.col = i => t.text = NotAvailable

\* C8: a growth percent is +infinity only when a non-zero compare value
\* follows a zero base (not for a missing base, not for 0 after 0), and
\* neither +infinity nor NaN is passed to a formatted cell or to a chart.
C8_SentinelOnlyZeroBase ==
    /\ \A r \in out.center_growth : \A i \in 1..Len(r.cols) :
          LET g == r.cols[i] IN
            g.pct = Inf =>
              /\ g.base = Num(0, 1)
              /\ IsNum(g.compare) /\ g.compare.n # 0
    /\ \A v \in GrowthChartValues : IsNum(v)
    /\ \A t \in GrowthTexts : t.txt \in {"num", "N/A"}

\* The sales table has the T NAGAR rows of the end-to-end scenario.
HasTNagarScenario ==
    /\ \E r \in sales_data :
          r.outlet = "T NAGAR" /\ r.year[2] = 2023 /\ r.sales = 100000
    /\ \E r \in sales_data :
          r.outlet = "T NAGAR" /\ r.year[2] = 2025 /\ r.sales = 150000

\* The outlet growth rows of a finished script run that compare 2025 with
\* 2023: the "2023 to 2025" table, and the year-to-year table when 2023 and
\* 2025 are the selected years.
Growth2023To2025 ==
    out.salon_growth_2325
    \cup (IF out.base_year[2] = 2023 /\ out.compare_year[2] = 2025
          THEN out.growth_data ELSE {})

\* C9: with T NAGAR rows 2023: 100000 and 2025: 150000 a finished script
\* run has produced the 2023 to 2025 growth of T NAGAR, amount 50000 and
\* percent 50.0, whether the years of the table are strings or integers.
C9_TNagarEndToEnd ==
    gpc = "done" /\ HasTNagarScenario =>
        \E r \in Growth2023To2025 :
            r.key = "T NAGAR" /\ r.amount = 50000 /\ r.pct = Num(50, 1)

\* The position of year y among the years Y, in ascending order.
Rank(y, Y) == Cardinality({z \in Y : z[2] < y[2]}) + 1

\* q has one entry per pair of neighbouring years of Y, in ascending order.
Pairwise(q, Y) ==
    /\ Len(q) = (IF Cardinality(Y) > 1 THEN Cardinality(Y) - 1 ELSE 0)
    /\ \A i \in 1..Len(q) :
          /\ q[i].prev \in Y /\ q[i].cur \in Y
          /\ Rank(q[i].prev, Y) = i
          /\ Rank(q[i].cur, Y) = i + 1

\* The sum of column col over the rows of the year, NaN without rows.
YearValue(rows, y, col) == Cell({r \in rows : r.year = y}, col)

\* C10: a growth sequence over more than two periods (the outlet's
\* year-over-year pivot, the centers' growth, T NAGAR's yearly growth) has
\* one value per pair of neighbouring periods in ascending order, each
\* computed from the period's value and the value of the period just before
\* it; the fixed-base tables are those of the selected base and comparison
\* year and of 2023 to 2025.
C10_PairwiseGrowth ==
    /\ gpc \in {"tab3", "tab4", "done"} =>
          LET od == Where(sales_data, "outlet", out.selected_outlet) IN
            /\ Pairwise(out.yoy, {r.year : r \in od})
            /\ \A i \in 1..Len(out.yoy) : \A c \in out.yoy[i].cells :
                  LET rows == Where(od, "month", c.month) IN
                    /\ c.base = YearValue(rows, out.yoy[i].prev, "sales")
                    /\ c.compare = YearValue(rows, out.yoy[i].cur, "sales")
                    /\ c.pct = GrowthPercent(c.base, c.compare)
    /\ gpc \in {"tab4", "done"} =>
          /\ {r.center : r \in out.center_growth}
                = (IF Cardinality({x.year : x \in service_data}) > 1
                   THEN {r.center : r \in service_data} ELSE {})
          /\ \A r \in out.center_growth :
                LET rows == Where(service_data, "center", r.center) IN
                  /\ Pairwise(r.cols, {x.year : x \in service_data})
                  /\ \A i \in 1..Len(r.cols) :
                        /\ r.cols[i].base
                             = YearValue(rows, r.cols[i].prev, "total_sales")
                        /\ r.cols[i].compare
                             = YearValue(rows, r.cols[i].cur, "total_sales")
    /\ gpc = "done" =>
          LET tn == Where(sales_data, "outlet", "T NAGAR") IN
            /\ Pairwise(out.tnagar_growth, {r.year : r \in tn})
            /\ \A i \in 1..Len(out.tnagar_growth) :
                  LET g == out.tnagar_growth[i] IN
                    /\ Num(g.base, 1) = YearValue(tn, g.prev, "sales")
                    /\ Num(g.compare, 1) = YearValue(tn, g.cur, "sales")
                    /\ g.text = FormatPct(
                           GrowthPercent(Num(g.base, 1), Num(g.compare, 1)), 2)
            /\ \A r \in out.growth_data :
                  /\ out.compare_year[2] > out.base_year[2]
                  /\ r.base = SumOf({x \in sales_data :
                                       x.outlet = r.key
                                       /\ x.year = out.base_year}, "sales")

\* A finished script run over three T NAGAR years whose sales differ: the
\* second growth value is against 2024, not against 2023.
C10_Witness ==
    /\ gpc = "done"
    /\ out.selected_outlet = "T NAGAR"
    /\ Len(out.yoy) = 2
    /\ Len(out.tnagar_growth) = 2
    /\ out.tnagar_growth[1].base # out.tnagar_growth[2].base
    /\ out.tnagar_growth[2].prev[2] = 2024

---------------------------------------------------------------------------
(* Filters, metrics and charts: C11 - C18 *)

\* The rows of the loaded sales table that match tab1's selections.
Tab1Matches ==
    {r \in sales_data :
        /\ r.year = out.selected_year.v
        /\ out.selected_brand.all \/ r.brand = out.selected_brand.v
        /\ out.selected_month.all \/ r.month = out.selected_month.v}

\* C11: for every filter selection of tab1 the average bill value is the
\* total sales of the matching rows divided by their total bills when the
\* total bills are more than 0, and exactly 0 when they are 0 (also when no
\* row matches); it is always a number.
C11_AverageBill ==
    out.tab = "tab1" =>
        LET ts == SumOf(Tab1Matches, "sales")
            tb == SumOf(Tab1Matches, "bills")
        IN  /\ out.total_sales = ts /\ out.total_bills = tb
            /\ IsNum(out.avg_bill_value)
            /\ tb > 0 => out.avg_bill_value = Num(ts, tb)
            /\ tb = 0 => out.avg_bill_value = Num(0, 1)

\* Rows with sales but without bills were selected: the average shown is 0.
C11_Witness ==
    /\ out.tab = "tab1"
    /\ out.filtered_data # {}
    /\ out.total_sales > 0 /\ out.total_bills = 0
    /\ out.avg_bill_value = Num(0, 1)

\* C12: in the service analysis the average transaction of a service-type
\* group and of a center group is total sales / transaction count when the
\* group's transaction count is more than 0; for a group whose transaction
\* count is 0 no infinity and no NaN is handed to the formatting of the
\* metrics table.
C12_AverageTransaction ==
    out.tab = "service" /\ out.state = "service" =>
        /\ \A r \in out.category_details :
              /\ r.transaction_count > 0 =>
                    r.average_text
                        = FormatMoney(Num(r.total_sales, r.transaction_count))
              /\ r.transaction_count = 0 => r.average_text.txt = "num"
        /\ \A r \in out.center_sales :
              r.transaction_count > 0 =>
                  r.average = Num(r.total_sales, r.transaction_count)

\* The months of the sequence are in calendar order.
CalendarOrder(q) ==
    \A i, j \in 1..Len(q) : i < j => MonthIndex(q[i]) < MonthIndex(q[j])

\* C13: every chronological display of months shows them in calendar order:
\* the monthly sales trend of tab1, the yearly comparison chart and the
\* year-over-year pivot of tab2, the month-by-month growth of tab4 and the
\* T NAGAR monthly chart, also when several years are drawn together.
C13_MonthsInCalendarOrder ==
    /\ out.tab = "tab1" => CalendarOrder(out.trend_axis)
    /\ out.tab = "tab2" =>
          CalendarOrder(out.chart_axis) /\ CalendarOrder(out.pivot_months)
    /\ out.tab = "tab4" =>
          CalendarOrder(out.growth_axis) /\ CalendarOrder(out.tnagar_axis)

\* The rank of an item category in ascending order of the names.
NameRank(n) == CHOOSE i \in 1..Len(CategoryNames) : CategoryNames[i] = n

\* Row a comes before row b: larger sales first, equal sales by ascending
\* name.
Before(a, b) ==
    \/ a.sales > b.sales
    \/ a.sales = b.sales /\ NameRank(a.name) < NameRank(b.name)

\* C14: the top categories are the 15 rows (all rows of a shorter table)
\* with the largest sales, in descending order of sales and, among equal
\* sales, in ascending order of the category name; so the chart is the same
\* for every order of the rows in the file.
C14_TopCategories ==
    out.tab = "category" /\ out.category = "charts" =>
        LET q == category_file.rows
            top == out.top
        IN  /\ Len(top) = (IF Len(q) < TopCount THEN Len(q) ELSE TopCount)
            /\ SeqToSet(top) \subseteq SeqToSet(q)
            /\ \A i, j \in 1..Len(top) : i < j => Before(top[i], top[j])
            /\ \A r \in SeqToSet(q) \ SeqToSet(top) :
                  \A i \in 1..Len(top) : Before(top[i], r)

RECURSIVE SumValues(_)
\* The sum of the values of a function.
SumValues(f) ==
    IF DOMAIN f = {} THEN 0
    ELSE LET g == CHOOSE x \in DOMAIN f : TRUE
         IN f[g] + SumValues([x \in DOMAIN f \ {g} |-> f[x]])

\* The sums p of a period are those of the rows of year y: the total is the
\* sum over all rows, there is one group per outlet, month and brand that
\* has rows, and the group sums of each dimension add up to the total.
PartitionSums(p, y) ==
    LET rows == {r \in sales_data : r.year = y} IN
      /\ p.total = SumOf(rows, "sales")
      /\ DOMAIN p.by_salon = {r.outlet : r \in rows}
      /\ DOMAIN p.monthly = {r.month : r \in rows}
      /\ DOMAIN p.by_brand = {r.brand : r \in rows}
      /\ SumValues(p.by_salon) = p.total
      /\ SumValues(p.monthly) = p.total
      /\ SumValues(p.by_brand) = p.total

\* C15: grouping loses no row and counts none twice: the total sales of a
\* year equal the sum of its per-outlet sums, of its per-month sums and of
\* its per-brand sums, and the per-(brand, year) and per-(outlet, year) sums
\* of the whole table add up to the table's total.
C15_GroupSumsPartition ==
    /\ out.tab = "tab4" /\ out.compared =>
          /\ PartitionSums(out.base, out.base_year)
          /\ PartitionSums(out.compare, out.compare_year)
    /\ out.tab = "service" /\ out.state = "unavailable" =>
          /\ SumOf(out.brand_sales, "sales") = SumOf(sales_data, "sales")
          /\ SumOf(out.salon_yearly_sales, "sales")
                = SumOf(sales_data, "sales")

\* The base year has two rows of one outlet in different months: one outlet
\* group of two rows, two month groups.
C15_Witness ==
    /\ out.tab = "tab4" /\ out.compared
    /\ Cardinality(DOMAIN out.base.by_salon) = 1
    /\ Cardinality(DOMAIN out.base.monthly) = 2
    /\ out.base.total = 400
    /\ out.compare.total > 0

\* C16: no render changes the loaded sales table or the loaded service
\* table, whatever the filters select (they work on copies), and a script
\* run starts without any result of the run before it: growth and the other
\* results are computed again from the tables.
C16_TablesUnchanged ==
    /\ [][sales_data' = sales_data /\ service_data' = service_data]_vars
    /\ [](gpc = "tab1" => out = NoView)

\* A render of tab1 has filtered a copy of the loaded table down to a part
\* of its three rows.
C16_Witness ==
    /\ out.tab = "tab1"
    /\ out.filtered_data # {} /\ out.filtered_data # sales_data
    /\ Cardinality(sales_data) = 3

\* C17: when the loaded service table is empty, tab3 shows the "service
\* data is not available" state and the sales-only analysis (sales per
\* brand and year, per outlet and year) and runs none of the service
\* computations (filters, category metrics, center sales, center growth);
\* the script goes on to tab4.  With service data the service analysis
\* runs.
C17_ServiceUnavailable ==
    out.tab = "service" =>
        /\ gpc = "sums"
        /\ service_data = {} <=> out.state = "unavailable"
        /\ service_data = {} =>
              /\ out.steps = {}
              /\ out.filtered_service_data = {}
              /\ out.category_details = {} /\ out.center_sales = {}
              /\ {<<r.key, r.year>> : r \in out.brand_sales}
                    = {<<r.brand, r.year>> : r \in sales_data}
              /\ {<<r.key, r.year>> : r \in out.salon_yearly_sales}
                    = {<<r.outlet, r.year>> : r \in sales_data}

\* A render without service data: the fallback shows the sales of two
\* years.
C17_Witness ==
    /\ out.tab = "service" /\ out.state = "unavailable"
    /\ service_data = {}
    /\ Cardinality({r.year : r \in out.brand_sales}) = 2

\* The category-breakdown part of C18 (SpecViews): whatever happens to the
\* category file (absent, unreadable, without the expected columns, store
\* errors), the section shows its charts, its note or its error message and
\* the script goes on with the service analysis.
C18_CategoryFailureIsLocal ==
    out.tab = "category" =>
        /\ gpc = "service"
        /\ out.category \in {"charts", "not available", "error"}
        /\ category_file.kind \in {"other", "garbled"} =>
              out.category = "error"

\* C18 (Spec): a failure confined to one source aborts only that source's
\* contribution: a load whose sales source fails (existence check or read)
\* does not end the script run with an exception; the service source stays
\* usable.
C18_SourceFailureIsLocal ==
    \A s \in Tabs : pc[s] # "failed"

---------------------------------------------------------------------------
(* The existence check and the year selection: C19 - C20 *)

\* What check_file_exists_in_s3 answers for the object obj under fault f:
\* True only for a present object, False exactly when the store answers
\* not-found, an error for every failure.
C19_Answer(obj, f) ==
    LET r == check_file_exists_in_s3(obj, f) IN
      /\ f = "none" /\ obj.kind # "absent" => r = Ret(TRUE)
      /\ r = Ret(TRUE) => f = "none" /\ obj.kind # "absent"
      /\ r = Ret(FALSE) <=> f = "none" /\ obj.kind = "absent"
      /\ f # "none" => r.st = "raise" /\ r.err # "none"

\* The existence check of a load has answered or failed.
C19_CheckStep(s) ==
    pc[s] = "exists" /\ pc'[s] \in {"read", "compute", "failed"}

\* C19: the existence check returns True only when the object is present
\* and False exactly when the store answers not-found; a permission error, a
\* network error or a failed client creation raises.  In load_data a failed
\* check ends the load with the error: the compute branch is taken only
\* when the object is absent.
C19_ExistenceCheck ==
    /\ [](\A f \in Faults : C19_Answer(blob, f))
    /\ [][\A s \in Tabs : C19_CheckStep(s) =>
             /\ pc'[s] = "compute" => blob.kind = "absent"
             /\ pc'[s] = "read" => blob.kind # "absent"
             /\ clean /\ ~clean' =>
                   /\ pc'[s] = "failed"
                   /\ err'[s] \in {"Exception", "BotoCoreError"}
                   /\ nComputes' = nComputes]_vars

\* The check failed while the persisted table was there: the load ended
\* with the error and nothing was recomputed.
C19_Witness ==
    \E s \in Tabs :
        /\ pc[s] = "failed" /\ err[s] = "Exception" /\ seen[s] = "none"
        /\ blob.kind = "csv"
        /\ nComputes = 0

\* The distinct years of the loaded sales table.
SalesYears == {r.year : r \in sales_data}

\* C20: when the sales table has at least two distinct years, every base
\* year offered has at least one later year to compare with, the latest
\* year is not offered as a base, and the selected comparison year is one
\* of the years of the table and later than the selected base year.
C20_YearSelection ==
    gpc = "done" /\ Cardinality(SalesYears) >= 2 =>
        /\ out.base_options # {}
        /\ out.base_options \subseteq SalesYears
        /\ \A b \in out.base_options :
              \E y \in SalesYears : y[2] > b[2]
        /\ out.base_year \in out.base_options
        /\ out.compare_options = {y \in SalesYears : y[2] > out.base_year[2]}
        /\ out.compare_year \in out.compare_options
        /\ out.compare_year[2] > out.base_year[2]

\* Three years are loaded and the middle one is the base: the only
\* comparison year is the last one.
C20_Witness ==
    /\ gpc = "done"
    /\ Cardinality(SalesYears) = 3
    /\ out.base_year[2] = 2024
    /\ out.compare_year[2] = 2025
    /\ Cardinality(out.base_options) = 2

---------------------------------------------------------------------------
(* The growth tables' keys and the filter semantics: C21 - C22 *)

\* The values of column col among the rows of year y of the loaded table.
PeriodValues(y, col) == {r[col] : r \in Where(sales_data, "year", y)}

\* The values a growth table must list: those with rows in both periods.
InBothPeriods(col) ==
    PeriodValues(out.base_year, col) \cap PeriodValues(out.compare_year, col)

\* The table lists exactly the values of col with rows in both periods, each
\* of them once.
ExactlyShared(table, col) ==
    /\ {r.key : r \in table} = InBothPeriods(col)
    /\ \A r1, r2 \in table : r1.key = r2.key => r1 = r2

\* C21: the per-outlet, per-month and per-brand growth tables of the
\* year-to-year comparison contain exactly the outlets, months and brands
\* that have rows in both the base year and the comparison year; a value
\* with rows in only one of the two years is not in the table, and no value
\* is listed twice.
C21_GrowthTableKeys ==
    (out.tab = "tab4" /\ out.compared) =>
        /\ ExactlyShared(out.growth_data, "outlet")
        /\ ExactlyShared(out.monthly_growth, "month")
        /\ ExactlyShared(out.brand_growth, "brand")

\* A comparison is shown in which an outlet, a brand and a month have rows
\* in one of the two years only and are left out, while the tables are not
\* empty.
C21_Witness ==
    /\ out.tab = "tab4" /\ out.compared
    /\ out.growth_data # {} /\ out.monthly_growth # {}
    /\ out.brand_growth # {}
    /\ \E o \in {r.outlet : r \in sales_data} :
          o \notin {r.key : r \in out.growth_data}
    /\ \E b \in {r.brand : r \in sales_data} :
          b \notin {r.key : r \in out.brand_growth}
    /\ \E m \in {r.month : r \in sales_data} :
          m \notin {r.key : r \in out.monthly_growth}

\* The filters of tab1 with their selections, in the order of the code.
SalesFilters ==
    <<[col |-> "year", sel |-> out.selected_year],
      [col |-> "brand", sel |-> out.selected_brand],
      [col |-> "month", sel |-> out.selected_month]>>

\* The service filters of tab3 with their selections, in the order of the
\* code.
ServiceFilters ==
    <<[col |-> "year", sel |-> out.selected_year],
      [col |-> "center", sel |-> out.selected_center],
      [col |-> "service_type", sel |-> out.selected_type],
      [col |-> "item_category", sel |-> out.selected_subcategory],
      [col |-> "business_unit", sel |-> out.selected_business_unit],
      [col |-> "item_subcategory", sel |-> out.selected_item_subcategory]>>

\* The rows of df that match every filter whose selection is not "All" and
\* whose column the table has.
Matching(df, fs) ==
    {r \in df : \A i \in DOMAIN fs :
        \/ fs[i].sel.all
        \/ fs[i].col \notin DOMAIN r
        \/ r[fs[i].col] = fs[i].sel.v}

\* One filter applied to a table: nothing removed for "All" or for a column
\* the table does not have.
Keep(df, f) ==
    IF f.sel.all \/ f.col \notin Columns(df) THEN df
    ELSE Where(df, f.col, f.sel.v)

RECURSIVE AnyOrder(_, _, _)
\* The tables that come out of df when the filters with the indices todo are
\* applied one after the other, in every order they can be applied in.
AnyOrder(df, fs, todo) ==
    IF todo = {} THEN {df}
    ELSE UNION {AnyOrder(Keep(df, fs[i]), fs, todo \ {i}) : i \in todo}

\* filtered is the filtered form of the loaded table df under the filters fs.
FilteredExactly(df, fs, filtered) ==
    /\ filtered = Matching(df, fs)
    /\ filtered \subseteq df
    /\ AnyOrder(df, fs, DOMAIN fs) = {filtered}

\* C22: the filtered sales table of tab1 is exactly the set of rows of the
\* loaded table that match every filter (year, brand, month) whose selection
\* is not "All"; it is a subset of the loaded table and the same in whatever
\* order the filters are applied.  The same holds for the filtered service
\* table of tab3 (year, center, service type, item category, business unit,
\* item subcategory), where a filter on a column the table does not have
\* removes no rows.
C22_FilterSemantics ==
    /\ out.tab = "tab1" =>
          FilteredExactly(sales_data, SalesFilters, out.filtered_data)
    /\ (out.tab = "service" /\ out.state = "service") =>
          FilteredExactly(service_data, ServiceFilters,
                          out.filtered_service_data)

\* The service analysis is shown for a table that has an item category but
\* no item subcategory column: the center selection is "All", an item
\* category is selected, and some rows but not all are filtered out.
C22_Witness ==
    /\ out.tab = "service" /\ out.state = "service"
    /\ "item_category" \in Columns(service_data)
    /\ "item_subcategory" \notin Columns(service_data)
    /\ out.selected_center.all
    /\ ~out.selected_subcategory.all
    /\ out.filtered_service_data # {}
    /\ out.filtered_service_data # service_data

====
